---- MODULE Spec2Model ----
(***************************************************************************)
(* Model of the Prometheus metric driver of svckit (metric/prometheus):    *)
(* the name sanitizer, the per-store metric maps with their get-or-create  *)
(* path, the prefix cache, and the process-wide exposition server.         *)
(*                                                                         *)
(* Strings are sequences of one-character strings, so that the sanitizer   *)
(* can be computed character by character as the code does.                *)
(***************************************************************************)
EXTENDS Integers, Sequences, FiniteSets, TLC

(***************************************************************************)
(* Bounds of the model.                                                    *)
(***************************************************************************)
\* Number of application goroutines calling the driver concurrently.
NumThreads == 2
\* Total number of driver calls (Counter, Gauge, Time, WithPrefix,
\* AppendSuffix) started in one behaviour.
MaxCalls == 3
\* Number of goroutines calling startServer / stopServer concurrently.
NumSrvThreads == 2
\* Total number of startServer calls, hence of server instances created.
MaxServers == 2
\* Total number of stopServer calls.
MaxStops == 2

Threads == 1..NumThreads
SrvThreads == 1..NumSrvThreads

(***************************************************************************)
(* Characters and strings.                                                 *)
(***************************************************************************)
Lower == {"a","b","c","d","e","f","g","h","i","j","k","l","m",
          "n","o","p","q","r","s","t","u","v","w","x","y","z"}
Upper == {"A","B","C","D","E","F","G","H","I","J","K","L","M",
          "N","O","P","Q","R","S","T","U","V","W","X","Y","Z"}
Digit == {"0","1","2","3","4","5","6","7","8","9"}

\* The separator WithPrefix appends.
Dot == "."

\* invalidCharsRegex = [^a-zA-Z0-9_:] : TRUE for a character it matches.
invalidCharsRegexNoColon(c) == c \notin (Lower \cup Upper \cup Digit \cup {"_"})
invalidCharsRegex(c) == c \notin (Lower \cup Upper \cup Digit \cup {"_", ":"})

\* startsWithInvalidRegex = ^[^a-zA-Z_] : TRUE when the string is non-empty
\* and its first character is neither a letter nor an underscore.
startsWithInvalidRegexUnanchored(s) ==
    \E i \in 1..Len(s) : s[i] \notin (Lower \cup Upper \cup {"_"})
startsWithInvalidRegex(s) ==
    Len(s) > 0 /\ s[1] \notin (Lower \cup Upper \cup {"_"})

\* strings.ReplaceAll(name, ".", "_")
ReplaceDots(s) == [i \in 1..Len(s) |-> IF s[i] = Dot THEN "_" ELSE s[i]]

\* invalidCharsRegex.ReplaceAllString(name, "_")
ReplaceInvalid(s) ==
    [i \in 1..Len(s) |-> IF invalidCharsRegex(s[i]) THEN "_" ELSE s[i]]

\* sanitizeName converts a metric name to Prometheus format.
sanitizeName(name) ==
    LET n1 == ReplaceDots(name)
        n2 == ReplaceInvalid(n1)
    IN  IF startsWithInvalidRegex(n2) THEN <<"_">> \o n2 ELSE n2

\* strings.HasSuffix(s, ".")
HasDotSuffix(s) == Len(s) > 0 /\ s[Len(s)] = Dot


(***************************************************************************)
(* Inputs of the driver calls.                                             *)
(***************************************************************************)
\* Metric names passed to Counter / Gauge / Time.  "a.b" and "a_b" are two
\* raw names with one sanitized form.
NameAB == <<"a", ".", "b">>
NameA_B == <<"a", "_", "b">>
NameRequests == <<"r","e","q","u","e","s","t","s">>
Names == {NameAB, NameA_B, NameRequests}

\* MetricPrefix option of the Dial that built the initial state.
PrefixBase == <<"b","a","s","e">>

\* Prefix strings passed to WithPrefix.  "api" and "api." normalize to the
\* same prefix; "base" is the prefix the active driver already has; "api.v1"
\* is the key AppendSuffix("v1") builds on a store with prefix "api.".
PrefixApi == <<"a","p","i">>
PrefixApiDot == <<"a","p","i",".">>
PrefixApiV1 == <<"a","p","i",".","v","1">>
PrefixCustom == <<"c","u","s","t","o","m">>
PrefixArgs == {PrefixApi, PrefixApiDot, PrefixApiV1, PrefixCustom, PrefixBase}

\* Suffix strings passed to AppendSuffix.
SuffixV1 == <<"v","1">>
SuffixArgs == {SuffixV1}

\* The variadic values of Counter(name, values...).
CounterArgs == {<< >>, <<2, 3>>, <<2, -3>>}
\* The value of Gauge(name, value).
GaugeArgs == {42, -5}
\* The duration of Time(name, duration), in nanoseconds.
TimeArgs == {1500000}

\* Namespace / Subsystem options of that Dial: the defaults, or both set.
EmptyStr == << >>
DialOptions == {[namespace |-> EmptyStr, subsystem |-> EmptyStr]}

Kinds == {"Counter", "Gauge", "Histogram"}

(***************************************************************************)
(* State.                                                                  *)
(***************************************************************************)
VARIABLES
    stores,         \* sequence of Prometheus structs; the index is the pointer
    handles,        \* sequence of collectors created by NewCounter/NewGauge/NewHistogram
    registry,       \* set of collectors (indices of handles) registered in the registry
    mu,             \* mu[s]: goroutine holding the write lock of store s, or 0
    mapLock,        \* mapLock[s]: goroutine holding mapLock of store s, or 0
    th,             \* th[t]: the call goroutine t is in, and its position
    ncalls,         \* number of driver calls started
    done,           \* history: the calls that returned, with what they returned
    requested,      \* history: per fully-qualified name, what the calls asked for
    serverMu,       \* goroutine holding serverMu, or 0
    currentServer,  \* the server instance currentServer points to, or 0 (nil)
    servers,        \* sequence of server instances; the index is the pointer
    sth,            \* sth[t]: the startServer/stopServer call goroutine t is in
    nstops,         \* number of stopServer calls started
    environ,        \* the environment: value of each variable of staticPrometheusEnvVars
    dopt,           \* the options the application passes to MustDial / TryDial
    dport,          \* o.port after Validate in the most recent Dial, 0 before the first
    md,             \* the MustDial call: position, r, numbers of Dial calls and sleeps
    td,             \* the TryDial call: the caller, the goroutine, numbers of calls and waits
    sname,          \* the string sanitizeName is applied to
    souts,          \* what sanitizeName returned: for sname, then for its own result
    hpath,          \* the MetricsPath option, empty without the option
    hmux,           \* the handlers server.start registered, by pattern
    hlog            \* the requests served, with the responses

storeVars == <<stores, handles, registry, mu, mapLock, th, ncalls, done, requested>>
serverVars == <<serverMu, currentServer, servers, sth, nstops>>
dialVars == <<environ, dopt, dport, md, td>>
sanitizeVars == <<sname, souts>>
handlerVars == <<hpath, hmux, hlog>>
vars == <<stores, handles, registry, mu, mapLock, th, ncalls, done, requested,
          serverMu, currentServer, servers, sth, nstops,
          environ, dopt, dport, md, td, sname, souts, hpath, hmux, hlog>>
\* What the methods of Prometheus, and what startServer / stopServer and the
\* serving goroutine, have no access to.
notStoreVars == <<serverVars, dialVars, sanitizeVars, handlerVars>>
notServerVars == <<storeVars, dialVars, sanitizeVars, handlerVars>>
notDialVars == <<storeVars, serverVars, sanitizeVars, handlerVars>>
notSanitizeVars == <<storeVars, serverVars, dialVars, handlerVars>>
notHandlerVars == <<storeVars, serverVars, dialVars, sanitizeVars>>

\* The empty map (make(map[string]...)).
EmptyMap == [x \in {} |-> 0]

\* newPrometheus creates a new Prometheus instance.
newPrometheus(prefix, namespace, subsystem) ==
    [prefix     |-> prefix,
     namespace  |-> namespace,
     subsystem  |-> subsystem,
     counters   |-> EmptyMap,
     gauges     |-> EmptyMap,
     histograms |-> EmptyMap,
     prefixes   |-> EmptyMap]

\* The map of store record p that holds collectors of kind k.
MapOf(p, k) ==
    CASE k = "Counter"   -> p.counters
      [] k = "Gauge"     -> p.gauges
      [] k = "Histogram" -> p.histograms

\* buildMetricName constructs the full metric name with prefix.
buildMetricName(p, name) ==
    LET sanitized == sanitizeName(name)
    IN  IF p.prefix # EmptyStr
        THEN sanitizeName(p.prefix) \o sanitized
        ELSE sanitized

(***************************************************************************)
(* The client library, as far as the driver depends on it: collectors,     *)
(* their descriptors, and Registry.Register.                               *)
(***************************************************************************)
\* BuildFQName joins the non-empty namespace, subsystem and name by "_";
\* an empty name gives the empty (invalid) fully-qualified name.
BuildFQName(namespace, subsystem, name) ==
    IF name = EmptyStr THEN EmptyStr
    ELSE (IF namespace # EmptyStr THEN namespace \o <<"_">> ELSE EmptyStr)
         \o (IF subsystem # EmptyStr THEN subsystem \o <<"_">> ELSE EmptyStr)
         \o name

\* prometheus.NewCounter / NewGauge / NewHistogram with the options the
\* driver passes: Namespace, Subsystem, Name, and the Help text
\* "<Kind> metric: <metricName>", which differs between the kinds.
NewCollector(k, p, metricName) ==
    [kind   |-> k,
     name   |-> metricName,
     fqName |-> BuildFQName(p.namespace, p.subsystem, metricName),
     help   |-> <<k, metricName>>,
     val    |-> 0,
     cnt    |-> 0]

\* The collector registered under fully-qualified name fq, or 0.
Holder(hs, reg, fq) ==
    IF \E g \in reg : hs[g].fqName = fq
    THEN CHOOSE g \in reg : hs[g].fqName = fq
    ELSE 0

\* registry.Register(c): an invalid descriptor and a registered descriptor of
\* the same fully-qualified name with another help string are plain errors;
\* the same descriptor again is an AlreadyRegisteredError that carries the
\* existing collector; otherwise the collector is registered.
Register(hs, reg, c) ==
    LET g == Holder(hs, reg, c.fqName)
    IN  IF c.fqName = EmptyStr THEN [err |-> "invalid", holder |-> 0]
        ELSE IF g = 0 THEN [err |-> "nil", holder |-> 0]
        ELSE IF hs[g].help # c.help THEN [err |-> "inconsistent", holder |-> g]
        ELSE [err |-> "AlreadyRegistered", holder |-> g]

\* The type assertion are.ExistingCollector.(prometheus.<Kind>): a Go
\* interface assertion, which holds when the collector has the interface's
\* methods.  A gauge has Inc and Add and so satisfies prometheus.Counter.
AssertKind(existingKind, k) ==
    CASE k = "Counter"   -> existingKind \in {"Counter", "Gauge"}
      [] k = "Gauge"     -> existingKind = "Gauge"
      [] k = "Histogram" -> existingKind = "Histogram"

(***************************************************************************)
(* getOrCreateCounter / getOrCreateGauge / getOrCreateHistogram.           *)
(***************************************************************************)
\* p.counters[name] = counter (and the gauge and histogram twins)
CacheDropped(p, k, name, h) == p
CachePut(p, k, name, h) ==
    CASE k = "Counter"   -> [p EXCEPT !.counters = (name :> h) @@ @]
      [] k = "Gauge"     -> [p EXCEPT !.gauges = (name :> h) @@ @]
      [] k = "Histogram" -> [p EXCEPT !.histograms = (name :> h) @@ @]

\* What getOrCreate does with the error of Register: adopt and cache the
\* existing collector when the error is an AlreadyRegisteredError whose
\* collector passes the type assertion; otherwise log and return the new,
\* unregistered collector without caching it.
OnRegisterErrorOwn(res, existingKind, k, hNew) == [h |-> hNew, cache |-> TRUE]
OnRegisterErrorAny(res, existingKind, k, hNew) ==
    IF res.holder # 0
    THEN [h |-> res.holder, cache |-> TRUE]
    ELSE [h |-> hNew, cache |-> FALSE]
OnRegisterErrorCachesFallback(res, existingKind, k, hNew) ==
    IF res.err = "AlreadyRegistered" /\ AssertKind(existingKind, k)
    THEN [h |-> res.holder, cache |-> TRUE]
    ELSE [h |-> hNew, cache |-> TRUE]
OnRegisterError(res, existingKind, k, hNew) ==
    IF res.err = "AlreadyRegistered" /\ AssertKind(existingKind, k)
    THEN [h |-> res.holder, cache |-> TRUE]
    ELSE [h |-> hNew, cache |-> FALSE]

\* The kind of collector a call works on.
KindOf(op) ==
    CASE op = "Counter" -> "Counter"
      [] op = "Gauge"   -> "Gauge"
      [] op = "Time"    -> "Histogram"

Idle == [pc |-> "idle", op |-> "none", store |-> 0, name |-> EmptyStr,
         vals |-> << >>, value |-> 0, h |-> 0, slow |-> FALSE]

\* Fast path of getOrCreate for the call c: RLock, look the name up,
\* RUnlock.  The read lock can be taken while no goroutine holds the write
\* lock.  On a hit the cached collector is returned, else the slow path
\* follows.
FastPath(t, c) ==
    LET m == MapOf(stores[c.store], KindOf(c.op))
    IN  /\ th[t].pc = "idle"
        /\ ncalls < MaxCalls
        /\ ncalls' = ncalls + 1
        /\ mu[c.store] = 0
        /\ th' = [th EXCEPT ![t] =
                    IF c.name \in DOMAIN m
                    THEN [c EXCEPT !.pc = "update", !.h = m[c.name]]
                    ELSE [c EXCEPT !.pc = "lock"]]
        /\ UNCHANGED <<stores, handles, registry, mu, mapLock, done, requested>>
        /\ UNCHANGED notStoreVars

\* p.mu.Lock()
Lock(t) ==
    LET c == th[t]
    IN  /\ c.pc = "lock"
        /\ mu[c.store] = 0
        /\ mu' = [mu EXCEPT ![c.store] = t]
        /\ th' = [th EXCEPT ![t] = [c EXCEPT !.pc = "slow", !.slow = TRUE]]
        /\ UNCHANGED <<stores, handles, registry, mapLock, ncalls, done, requested>>
        /\ UNCHANGED notStoreVars

\* Slow path under the write lock: double-check, build the name, create the
\* collector, register it, cache it; the deferred Unlock ends the step.
SlowPath(t) ==
    LET c == th[t]
        k == KindOf(c.op)
        p == stores[c.store]
        m == MapOf(p, k)
        metricName == buildMetricName(p, c.name)
        new == NewCollector(k, p, metricName)
        hNew == Len(handles) + 1
        res == Register(handles, registry, new)
        out == OnRegisterError(res, IF res.holder = 0 THEN "none"
                                    ELSE handles[res.holder].kind, k, hNew)
    IN  /\ c.pc = "slow"
        /\ mu[c.store] = t
        /\ mu' = [mu EXCEPT ![c.store] = 0]
        /\ IF c.name \in DOMAIN m
           THEN /\ th' = [th EXCEPT ![t] = [c EXCEPT !.pc = "update", !.h = m[c.name]]]
                /\ UNCHANGED <<stores, handles, registry>>
           ELSE /\ handles' = Append(handles, new)
                /\ IF res.err = "nil"
                   THEN /\ registry' = registry \cup {hNew}
                        /\ stores' = [stores EXCEPT ![c.store] = CachePut(p, k, c.name, hNew)]
                        /\ th' = [th EXCEPT ![t] = [c EXCEPT !.pc = "update", !.h = hNew]]
                   ELSE /\ registry' = registry
                        /\ stores' = [stores EXCEPT ![c.store] =
                                         IF out.cache THEN CachePut(p, k, c.name, out.h) ELSE p]
                        /\ th' = [th EXCEPT ![t] = [c EXCEPT !.pc = "update", !.h = out.h]]
        /\ UNCHANGED <<mapLock, ncalls, done, requested>>
        /\ UNCHANGED notStoreVars

(***************************************************************************)
(* Counter, Gauge, Time.                                                   *)
(***************************************************************************)
\* The loop of Counter: value := 1; with values, value = 0 + v1 + ... + vN.
RECURSIVE SumValues(_)
SumValues(values) ==
    IF values = << >> THEN 0 ELSE values[1] + SumValues(Tail(values))

CounterValueFromOne(values) == 1 + SumValues(values)
CounterValue(values) == IF Len(values) > 0 THEN SumValues(values) ELSE 1

\* counter.Add(v): the library panics on a negative v and changes nothing.
CounterAdd(c, v) == IF v < 0 THEN c ELSE [c EXCEPT !.val = @ + v]
CounterAddPanics(v) == v < 0

\* gauge.Set(v)
GaugeSetAdds(c, v) == [c EXCEPT !.val = @ + v]
GaugeSet(c, v) == [c EXCEPT !.val = v]

\* histogram.Observe(float64(duration) / 1e9): one more observation; val is
\* the sum of the observations in units of 1e-9 seconds.
HistogramObserveDropped(c, duration) == c
HistogramObserve(c, duration) == [c EXCEPT !.cnt = @ + 1, !.val = @ + duration]

\* The fully-qualified name a call on store s with this name resolves to.
FullName(s, name) ==
    BuildFQName(stores[s].namespace, stores[s].subsystem,
                buildMetricName(stores[s], name))

\* History of what the calls that reached their update asked for under a
\* fully-qualified name: the number of calls per kind of call, the sum of
\* the increments asked of Counter, the sum of the non-negative ones, the
\* values asked of Gauge and the last of them.
NoRequest == [calls |-> [o \in {"Counter", "Gauge", "Time"} |-> 0],
              sum |-> 0, nonneg |-> 0, sets |-> {}, last |-> 0]
Req(fq) == IF fq \in DOMAIN requested THEN requested[fq] ELSE NoRequest

\* The increment a Counter call asks for: 1, or the sum of its values.
Increment(values) ==
    IF values = << >> THEN 1
    ELSE LET n == Len(values)
             partial[i \in 0..n] == IF i = 0 THEN 0 ELSE partial[i-1] + values[i]
         IN  partial[n]

Asked(c, r) ==
    LET inc == Increment(c.vals)
        r1 == [r EXCEPT !.calls[c.op] = @ + 1]
    IN  CASE c.op = "Counter" ->
               [r1 EXCEPT !.sum = @ + inc,
                          !.nonneg = IF inc >= 0 THEN @ + inc ELSE @]
          [] c.op = "Gauge" -> [r1 EXCEPT !.sets = @ \cup {c.value}, !.last = c.value]
          [] c.op = "Time"  -> r1

\* The record of a returned call: n tells the calls with the same
\* arguments and the same result apart.
Record(op, store, name, h, fault) ==
    LET same == {d \in done : d.op = op /\ d.store = store /\ d.name = name
                              /\ d.h = h /\ d.fault = fault}
    IN  [op |-> op, store |-> store, name |-> name, h |-> h, fault |-> fault,
         n |-> Cardinality(same) + 1]

\* The handle's update that ends Counter, Gauge and Time, and the return.
\* A panic of counter.Add ends the call without an update; what the caller
\* does with the panic is outside the driver.
Update(t) ==
    LET c == th[t]
        fq == FullName(c.store, c.name)
    IN  /\ c.pc = "update"
        /\ handles' = [handles EXCEPT ![c.h] =
                CASE c.op = "Counter" -> CounterAdd(@, c.value)
                  [] c.op = "Gauge"   -> GaugeSet(@, c.value)
                  [] c.op = "Time"    -> HistogramObserve(@, c.value)]
        /\ done' = done \cup {Record(c.op, c.store, c.name, c.h,
                                      c.op = "Counter" /\ CounterAddPanics(c.value))}
        /\ requested' = (fq :> Asked(c, Req(fq))) @@ requested
        /\ th' = [th EXCEPT ![t] = Idle]
        /\ UNCHANGED <<stores, registry, mu, mapLock, ncalls>>
        /\ UNCHANGED notStoreVars

\* The stores application code can hold: the active driver and the stores
\* WithPrefix and AppendSuffix returned.  Store 1 is the prefix-less store
\* that only Dial holds.
Callable == 2..Len(stores)

\* Counter(name, values...) up to the fast path of getOrCreateCounter.
Counter(t, s, name, values) ==
    FastPath(t, [Idle EXCEPT !.op = "Counter", !.store = s, !.name = name,
                             !.vals = values, !.value = CounterValue(values)])

\* Gauge(name, value) up to the fast path of getOrCreateGauge.
Gauge(t, s, name, value) ==
    FastPath(t, [Idle EXCEPT !.op = "Gauge", !.store = s, !.name = name,
                             !.value = value])

\* Time(name, duration) up to the fast path of getOrCreateHistogram.
Time(t, s, name, duration) ==
    FastPath(t, [Idle EXCEPT !.op = "Time", !.store = s, !.name = name,
                             !.value = duration])

(***************************************************************************)
(* WithPrefix, AppendSuffix.                                               *)
(***************************************************************************)
\* mPrefix: the prefix with the separator appended when it is missing.
NormalizePrefixUnlessEmpty(prefix) ==
    IF prefix = << >> \/ HasDotSuffix(prefix) THEN prefix ELSE prefix \o <<Dot>>
NormalizePrefix(prefix) ==
    IF HasDotSuffix(prefix) THEN prefix ELSE prefix \o <<Dot>>

\* The prefix of the store WithPrefix(prefix) creates on store p.
DerivedPrefixExtends(p, prefix) == NormalizePrefix(p.prefix \o prefix)
DerivedPrefix(p, prefix) == NormalizePrefix(prefix)

\* The key of p.prefixes[prefix]: the string as passed.
CacheKeyNormalized(prefix) == NormalizePrefix(prefix)
CacheKey(prefix) == prefix

\* s, ok := p.prefixes[prefix]; ok && s != nil
CacheMiss(p, prefix) == FALSE
CacheHit(p, prefix) == prefix \in DOMAIN p.prefixes /\ p.prefixes[prefix] # 0

\* The argument AppendSuffix passes to WithPrefix.
SuffixKeyBare(p, suffix) == suffix
SuffixKey(p, suffix) == p.prefix \o suffix

\* p.mapLock.Lock()
MapLockFree(s) == TRUE
MapLockAcquirable(s) == mapLock[s] = 0

\* The record of a returned WithPrefix / AppendSuffix call: AppendSuffix is
\* recorded with its suffix, WithPrefix with its prefix.
Returned(c, result) ==
    Record(c.op, c.store, IF c.op = "AppendSuffix" THEN c.vals ELSE c.name,
           result, FALSE)

\* WithPrefix for the call c, up to the lookup: p.mapLock.Lock() and the
\* lookup in p.prefixes.  On a hit the cached store is returned and the
\* deferred Unlock runs; on a miss the lock stays held.
WithPrefixLookup(t, c) ==
    LET p == stores[c.store]
    IN  /\ th[t].pc = "idle"
        /\ ncalls < MaxCalls
        /\ ncalls' = ncalls + 1
        /\ MapLockAcquirable(c.store)
        /\ IF CacheHit(p, CacheKey(c.name))
           THEN /\ done' = done \cup {Returned(c, p.prefixes[CacheKey(c.name)])}
                /\ UNCHANGED <<th, mapLock>>
           ELSE /\ th' = [th EXCEPT ![t] = [c EXCEPT !.pc = "wp_create"]]
                /\ mapLock' = [mapLock EXCEPT ![c.store] = t]
                /\ UNCHANGED done
        /\ UNCHANGED <<stores, handles, registry, mu, requested>>
        /\ UNCHANGED notStoreVars

\* WithPrefix(prefix)
WithPrefix(t, s, prefix) ==
    WithPrefixLookup(t, [Idle EXCEPT !.op = "WithPrefix", !.store = s,
                                     !.name = prefix])

\* AppendSuffix(suffix): WithPrefix(p.prefix + suffix).
AppendSuffix(t, s, suffix) ==
    WithPrefixLookup(t, [Idle EXCEPT !.op = "AppendSuffix", !.store = s,
                                     !.name = SuffixKey(stores[s], suffix),
                                     !.vals = suffix])

\* On a miss: the new store, sharing registry, namespace, subsystem and
\* buckets, is put in p.prefixes and returned; the deferred Unlock runs.
WithPrefixCreate(t) ==
    LET c == th[t]
        p == stores[c.store]
        new == Len(stores) + 1
    IN  /\ c.pc = "wp_create"
        /\ stores' = Append([stores EXCEPT ![c.store].prefixes = (CacheKey(c.name) :> new) @@ @],
                            newPrometheus(DerivedPrefix(p, c.name), p.namespace, p.subsystem))
        /\ mu' = Append(mu, 0)
        /\ mapLock' = Append([mapLock EXCEPT ![c.store] = 0], 0)
        /\ done' = done \cup {Returned(c, new)}
        /\ th' = [th EXCEPT ![t] = Idle]
        /\ UNCHANGED <<handles, registry, ncalls, requested>>
        /\ UNCHANGED notStoreVars

(***************************************************************************)
(* The exposition server: server.start, server.stop, startServer,          *)
(* stopServer, and the goroutine start() spawns.                           *)
(***************************************************************************)
\* The default port (DefaultHTTPPort) and a second one.
DefaultHTTPPort == 2112
Ports == {DefaultHTTPPort, 9090}

\* newServer creates a new HTTP server for metrics.
\*   closes:     how often close(s.stopChan) ran
\*   httpServer: s.httpServer is set (start ran)
\*   inShutdown: http.Server.Shutdown was called
\*   lis:        the listener: "none", "bound" (net.Listen returned, Serve does
\*               not track it yet), "listening", "closed", "failed"
\*   g:          the goroutine of start: "none", "spawned", "listen", "serve",
\*               "accept", "exited"
\*   busy:       a request is in flight on a connection
\*   stopped:    stop() has returned
newServer(port) ==
    [port |-> port, closes |-> 0, httpServer |-> FALSE, inShutdown |-> FALSE,
     lis |-> "none", g |-> "none", busy |-> FALSE, stopped |-> FALSE]

SrvIdle == [pc |-> "idle", op |-> "none", port |-> 0, inst |-> 0, err |-> FALSE]

\* startServer(port, path, registry) up to serverMu.Lock().
StartServerCall(t, port) ==
    /\ sth[t].pc = "idle"
    /\ Len(servers) < MaxServers
    /\ sth' = [sth EXCEPT ![t] = [SrvIdle EXCEPT !.pc = "lock", !.op = "start", !.port = port]]
    /\ UNCHANGED <<serverMu, currentServer, servers, nstops>>
    /\ UNCHANGED notServerVars

\* stopServer() up to serverMu.Lock().
StopServerCall(t) ==
    /\ sth[t].pc = "idle"
    /\ nstops < MaxStops
    /\ nstops' = nstops + 1
    /\ sth' = [sth EXCEPT ![t] = [SrvIdle EXCEPT !.pc = "lock", !.op = "stop"]]
    /\ UNCHANGED <<serverMu, currentServer, servers>>
    /\ UNCHANGED notServerVars

\* if currentServer != nil { currentServer.stop() } of startServer
SkipStopExisting(cur) == FALSE
StopExisting(cur) == cur # 0

\* serverMu.Lock() goes through when no goroutine holds serverMu.
ServerMuFree == TRUE
ServerMuAcquirable == serverMu = 0

\* serverMu.Lock(), and the test of currentServer that follows it.
ServerLock(t) ==
    LET c == sth[t]
    IN  /\ c.pc = "lock"
        /\ ServerMuAcquirable
        /\ serverMu' = t
        /\ sth' = [sth EXCEPT ![t] =
                CASE c.op = "start" ->
                        IF StopExisting(currentServer)
                        THEN [c EXCEPT !.pc = "stop_begin", !.inst = currentServer]
                        ELSE [c EXCEPT !.pc = "new"]
                  [] c.op = "stop" ->
                        IF currentServer = 0
                        THEN [c EXCEPT !.pc = "unlock"]
                        ELSE [c EXCEPT !.pc = "stop_begin", !.inst = currentServer]]
        /\ UNCHANGED <<currentServer, servers, nstops>>
        /\ UNCHANGED notServerVars

\* server.stop: close(s.stopChan), and Shutdown marks the http.Server as
\* shutting down and closes the listener Serve tracks.  s.httpServer is
\* nil only before start.
StopBegin(t) ==
    LET c == sth[t]
        sv == servers[c.inst]
    IN  /\ c.pc = "stop_begin"
        /\ servers' = [servers EXCEPT ![c.inst] =
                IF ~sv.httpServer
                THEN [sv EXCEPT !.closes = @ + 1, !.stopped = TRUE]
                ELSE [sv EXCEPT !.closes = @ + 1, !.inShutdown = TRUE,
                                !.lis = IF @ = "listening" THEN "closed" ELSE @]]
        /\ sth' = [sth EXCEPT ![t] =
                IF ~sv.httpServer THEN [c EXCEPT !.pc = "stop_ret"]
                ELSE [c EXCEPT !.pc = "stop_drain"]]
        /\ UNCHANGED <<serverMu, currentServer, nstops>>
        /\ UNCHANGED notServerVars

\* Shutdown returns nil once no request is in flight.
ShutdownDrained(t) ==
    LET c == sth[t]
    IN  /\ c.pc = "stop_drain"
        /\ ~servers[c.inst].busy
        /\ sth' = [sth EXCEPT ![t] = [c EXCEPT !.pc = "stop_wait"]]
        /\ UNCHANGED <<serverMu, currentServer, servers, nstops>>
        /\ UNCHANGED notServerVars

\* Shutdown returns the context's error when a request is still in flight
\* after 5 seconds; stop returns it without waiting for the goroutine.
ShutdownTimeout(t) ==
    LET c == sth[t]
    IN  /\ c.pc = "stop_drain"
        /\ servers[c.inst].busy
        /\ servers' = [servers EXCEPT ![c.inst].stopped = TRUE]
        /\ sth' = [sth EXCEPT ![t] = [c EXCEPT !.pc = "stop_ret", !.err = TRUE]]
        /\ UNCHANGED <<serverMu, currentServer, nstops>>
        /\ UNCHANGED notServerVars

\* s.wg.Wait(): the goroutine of start has returned; stop returns nil.
StopWait(t) ==
    LET c == sth[t]
    IN  /\ c.pc = "stop_wait"
        /\ servers[c.inst].g = "exited"
        /\ servers' = [servers EXCEPT ![c.inst].stopped = TRUE]
        /\ sth' = [sth EXCEPT ![t] = [c EXCEPT !.pc = "stop_ret"]]
        /\ UNCHANGED <<serverMu, currentServer, nstops>>
        /\ UNCHANGED notServerVars

\* err := currentServer.stop(); currentServer = nil of stopServer: the
\* reference after the stop, whatever the error.
AfterStopServerKept(cur, err) == cur
AfterStopServerUnlessError(cur, err) == IF err THEN cur ELSE 0
AfterStopServer(cur, err) == 0

\* After stop(): startServer drops the error and goes on; stopServer sets
\* currentServer = nil and keeps the error to return.
StopReturn(t) ==
    LET c == sth[t]
    IN  /\ c.pc = "stop_ret"
        /\ IF c.op = "start"
           THEN /\ sth' = [sth EXCEPT ![t] = [c EXCEPT !.pc = "new", !.err = FALSE]]
                /\ UNCHANGED currentServer
           ELSE /\ sth' = [sth EXCEPT ![t] = [c EXCEPT !.pc = "unlock"]]
                /\ currentServer' = AfterStopServer(currentServer, c.err)
        /\ UNCHANGED <<serverMu, servers, nstops>>
        /\ UNCHANGED notServerVars

\* currentServer = newServer(port, path, registry); currentServer.start():
\* start builds the http.Server, spawns the goroutine and returns nil.
NewAndStart(t) ==
    LET c == sth[t]
        new == Len(servers) + 1
    IN  /\ c.pc = "new"
        /\ servers' = Append(servers,
                [newServer(c.port) EXCEPT !.httpServer = TRUE, !.g = "spawned"])
        /\ currentServer' = new
        /\ sth' = [sth EXCEPT ![t] = [c EXCEPT !.pc = "unlock", !.inst = new]]
        /\ UNCHANGED <<serverMu, nstops>>
        /\ UNCHANGED notServerVars

\* The deferred serverMu.Unlock() and the return.
ServerUnlock(t) ==
    /\ sth[t].pc = "unlock"
    /\ serverMu = t
    /\ serverMu' = 0
    /\ sth' = [sth EXCEPT ![t] = SrvIdle]
    /\ UNCHANGED <<currentServer, servers, nstops>>
    /\ UNCHANGED notServerVars

\* The goroutine enters ListenAndServe, which returns ErrServerClosed at
\* once when Shutdown was already called.
GoListenAndServe(i) ==
    /\ servers[i].g = "spawned"
    /\ servers' = [servers EXCEPT ![i].g =
                      IF servers[i].inShutdown THEN "exited" ELSE "listen"]
    /\ UNCHANGED <<serverMu, currentServer, sth, nstops>>
    /\ UNCHANGED notServerVars

\* The port is free when no instance of this process holds a listener on it.
PortFree(port, i) ==
    \A j \in 1..Len(servers) :
        j # i => ~(servers[j].port = port /\ servers[j].lis \in {"bound", "listening"})

\* net.Listen binds the port.
GoListen(i) ==
    /\ servers[i].g = "listen"
    /\ PortFree(servers[i].port, i)
    /\ servers' = [servers EXCEPT ![i].g = "serve", ![i].lis = "bound"]
    /\ UNCHANGED <<serverMu, currentServer, sth, nstops>>
    /\ UNCHANGED notServerVars

\* net.Listen fails (the port is held by this or another process, or is not
\* permitted): the goroutine logs the error and returns.
GoListenFails(i) ==
    /\ servers[i].g = "listen"
    /\ servers' = [servers EXCEPT ![i].g = "exited", ![i].lis = "failed"]
    /\ UNCHANGED <<serverMu, currentServer, sth, nstops>>
    /\ UNCHANGED notServerVars

\* Serve registers the listener; when Shutdown was called it closes the
\* listener and returns ErrServerClosed instead.
GoServe(i) ==
    /\ servers[i].g = "serve"
    /\ servers' = [servers EXCEPT ![i] =
            IF @.inShutdown THEN [@ EXCEPT !.g = "exited", !.lis = "closed"]
            ELSE [@ EXCEPT !.g = "accept", !.lis = "listening"]]
    /\ UNCHANGED <<serverMu, currentServer, sth, nstops>>
    /\ UNCHANGED notServerVars

\* Accept fails on the closed listener: Serve returns ErrServerClosed.
GoServeReturns(i) ==
    /\ servers[i].g = "accept"
    /\ servers[i].lis = "closed"
    /\ servers' = [servers EXCEPT ![i].g = "exited"]
    /\ UNCHANGED <<serverMu, currentServer, sth, nstops>>
    /\ UNCHANGED notServerVars

\* A scrape request arrives on the listening server.
RequestBegins(i) ==
    /\ servers[i].lis = "listening"
    /\ ~servers[i].busy
    /\ servers' = [servers EXCEPT ![i].busy = TRUE]
    /\ UNCHANGED <<serverMu, currentServer, sth, nstops>>
    /\ UNCHANGED notServerVars

\* The request in flight completes.
RequestEnds(i) ==
    /\ servers[i].busy
    /\ servers' = [servers EXCEPT ![i].busy = FALSE]
    /\ UNCHANGED <<serverMu, currentServer, sth, nstops>>
    /\ UNCHANGED notServerVars

(***************************************************************************)
(* Options: Validate and getPortFromEnv.                                   *)
(***************************************************************************)
\* The values an environment variable can have: unset or empty, a port, a
\* second port, a word, zero, a negative number, a number with a sign, and a
\* number followed by a letter.
EnvUnset == << >>
Env9090 == <<"9","0","9","0">>
Env8080 == <<"8","0","8","0">>
EnvWord == <<"a","b","c">>
EnvZero == <<"0">>
EnvNegative == <<"-","5">>
EnvSigned == <<"+","7","0">>
EnvTrailing == <<"8","0","a">>
EnvValues == {EnvUnset, Env9090, Env8080, EnvWord, EnvZero, EnvNegative,
              EnvSigned, EnvTrailing}

\* The port given by the HTTPPort option; 0 when the option is not given.
PortOptions == {0, 3000, -1}

\* staticPrometheusEnvVars, in the order getPortFromEnv reads them.
staticPrometheusEnvVarsReversed == <<"PROMETHEUS_PORT", "SVCKIT_METRIC_PROMETHEUS_PORT">>
staticPrometheusEnvVars == <<"SVCKIT_METRIC_PROMETHEUS_PORT", "PROMETHEUS_PORT">>

\* The environments: a value for each of the two variables.
Environments == [{"SVCKIT_METRIC_PROMETHEUS_PORT", "PROMETHEUS_PORT"} -> EnvValues]

\* The value of a decimal digit.
DigitValue(c) ==
    CASE c = "0" -> 0 [] c = "1" -> 1 [] c = "2" -> 2 [] c = "3" -> 3
      [] c = "4" -> 4 [] c = "5" -> 5 [] c = "6" -> 6 [] c = "7" -> 7
      [] c = "8" -> 8 [] c = "9" -> 9

\* The number a sequence of decimal digits denotes.
RECURSIVE DigitsValue(_)
DigitsValue(ds) ==
    IF ds = << >> THEN 0
    ELSE 10 * DigitsValue(SubSeq(ds, 1, Len(ds) - 1)) + DigitValue(ds[Len(ds)])

\* strconv.Atoi: an optional sign and at least one digit, nothing else; err
\* is TRUE for any other string.
Atoi(str) ==
    LET signed == Len(str) > 0 /\ str[1] \in {"+", "-"}
        ds == IF signed THEN Tail(str) ELSE str
    IN  IF ds = << >> \/ \E i \in 1..Len(ds) : ds[i] \notin Digit
        THEN [err |-> TRUE, val |-> 0]
        ELSE [err |-> FALSE,
              val |-> IF signed /\ str[1] = "-" THEN 0 - DigitsValue(ds)
                      ELSE DigitsValue(ds)]

\* The test of getPortFromEnv on one variable: portStr != "", Atoi succeeds
\* and port > 0.
EnvPortAccepted(portStr) ==
    portStr # << >> /\ ~Atoi(portStr).err /\ Atoi(portStr).val > 0

\* getPortFromEnv: the port of the first variable that passes the test, in
\* the order of staticPrometheusEnvVars; 0 when none does.
RECURSIVE getPortFromEnvFrom(_, _)
getPortFromEnvFrom(env, i) ==
    IF i > Len(staticPrometheusEnvVars) THEN 0
    ELSE IF EnvPortAccepted(env[staticPrometheusEnvVars[i]])
         THEN Atoi(env[staticPrometheusEnvVars[i]]).val
         ELSE getPortFromEnvFrom(env, i + 1)

getPortFromEnv(env) == getPortFromEnvFrom(env, 1)

\* Validate, for the port: o.port after the call.
ValidatePort(port, env) ==
    IF port = 0
    THEN IF getPortFromEnv(env) = 0 THEN DefaultHTTPPort ELSE getPortFromEnv(env)
    ELSE port

(***************************************************************************)
(* Dial, MustDial, TryDial.  Here Dial is taken by what its callers see of *)
(* it: the error it returns and the port it resolved; what it does to the  *)
(* stores and to the server is the subject of the sections above.          *)
(***************************************************************************)
\* The error value of a Dial call: TRUE for err != nil (return err), FALSE
\* for return nil.
DialErrors == {FALSE, TRUE}

\* The bound of MustDial: if r > 10 { log.Fatal(err) }.
MustDialMaxR == 10

\* Largest number of waits of the backoff of TryDial followed in the model.
MaxBackoffs == 3

MdIdle == [pc |-> "idle", r |-> 0, calls |-> 0, sleeps |-> 0]
TdIdle == [caller |-> "idle", g |-> "none", calls |-> 0, waits |-> 0,
           err |-> FALSE, expired |-> FALSE]

\* log.Fatal has not ended the process.
Alive == md.pc # "fatal"

\* Dial up to Validate: the options are built anew, so the port is resolved
\* on every call.
DialResolvesPort == dport' = ValidatePort(dopt, environ)

\* MustDial(opts...): r := 0
MustDialCall ==
    /\ md.pc = "idle"
    /\ md' = [md EXCEPT !.pc = "dial"]
    /\ UNCHANGED <<environ, dopt, dport, td>>
    /\ UNCHANGED notDialVars

\* if r > 10 of MustDial
MustDialGivesUp(r) == r > MustDialMaxR

\* again: if err := Dial(opts...); err != nil { if r > 10 { log.Fatal(err) };
\* r++ ...; without an error MustDial returns.
MustDialAttempt(err) ==
    /\ md.pc = "dial"
    /\ DialResolvesPort
    /\ md' = IF ~err THEN [md EXCEPT !.pc = "returned", !.calls = @ + 1]
             ELSE IF MustDialGivesUp(md.r)
                  THEN [md EXCEPT !.pc = "fatal", !.calls = @ + 1]
                  ELSE [md EXCEPT !.pc = "sleep", !.calls = @ + 1, !.r = @ + 1]
    /\ UNCHANGED <<environ, dopt, td>>
    /\ UNCHANGED notDialVars

\* time.Sleep(time.Second); goto again
MustDialSleep ==
    /\ md.pc = "sleep"
    /\ md' = [md EXCEPT !.pc = "dial", !.sleeps = @ + 1]
    /\ UNCHANGED <<environ, dopt, dport, td>>
    /\ UNCHANGED notDialVars

\* TryDial(opts...): go func() {...}() and the return.
TryDialCall ==
    /\ Alive
    /\ td.caller = "idle"
    /\ td' = [td EXCEPT !.caller = "returned", !.g = "first"]
    /\ UNCHANGED <<environ, dopt, dport, md>>
    /\ UNCHANGED notDialVars

\* if err := Dial(opts...); err == nil { return } of the goroutine
TryDialStopsNever(err) == FALSE
TryDialStops(err) == ~err

\* The goroutine's first Dial.
TryDialFirst(err) ==
    /\ Alive
    /\ td.g = "first"
    /\ DialResolvesPort
    /\ td' = IF TryDialStops(err)
             THEN [td EXCEPT !.g = "done", !.calls = @ + 1, !.err = err]
             ELSE [td EXCEPT !.g = "backoff", !.calls = @ + 1, !.err = err]
    /\ UNCHANGED <<environ, dopt, md>>
    /\ UNCHANGED notDialVars

\* signal.WithBackoff calls the function: Dial returns nil and WithBackoff
\* returns, or the error leads to the next backoff interval.
BackoffAttempt(err) ==
    /\ Alive
    /\ td.g = "backoff"
    /\ DialResolvesPort
    /\ td' = IF ~err
             THEN [td EXCEPT !.g = "done", !.calls = @ + 1, !.err = FALSE]
             ELSE [td EXCEPT !.g = "wait", !.calls = @ + 1, !.err = TRUE]
    /\ UNCHANGED <<environ, dopt, md>>
    /\ UNCHANGED notDialVars

\* signal.WithBackoff waits the next interval (at most a minute) and tries
\* again.
BackoffWait ==
    /\ Alive
    /\ td.g = "wait"
    /\ td.waits < MaxBackoffs
    /\ td' = [td EXCEPT !.g = "backoff", !.waits = @ + 1]
    /\ UNCHANGED <<environ, dopt, dport, md>>
    /\ UNCHANGED notDialVars

\* signal.WithBackoff gives up: the overall bound (a year) is exceeded.
BackoffExpires ==
    /\ Alive
    /\ td.g = "wait"
    /\ td' = [td EXCEPT !.g = "done", !.expired = TRUE]
    /\ UNCHANGED <<environ, dopt, dport, md>>
    /\ UNCHANGED notDialVars

(***************************************************************************)
(* sanitizeName on its own.                                                *)
(***************************************************************************)
\* Longest string sanitizeName is applied to.
MaxNameLen == 3

\* Number of times sanitizeName is applied in a row: to the string, then to
\* what it returned.
MaxApplications == 2

\* A lower-case and an upper-case letter, a digit, the dot, a character
\* invalidCharsRegex matches, and the two other characters it does not.
NameChars == {"a", "Z", "1", ".", "-", "_", ":"}

NameStrings == UNION {[1..n -> NameChars] : n \in 0..MaxNameLen}

\* sanitizeName(name) for the string, or for the result of the last call.
SanitizeCall ==
    /\ Len(souts) < MaxApplications
    /\ souts' = Append(souts, sanitizeName(IF souts = << >> THEN sname
                                            ELSE souts[Len(souts)]))
    /\ UNCHANGED sname
    /\ UNCHANGED notSanitizeVars

(***************************************************************************)
(* The handlers of the exposition server.                                  *)
(***************************************************************************)
\* Number of requests followed.
MaxRequests == 2

DefaultMetricsPath == <<"/","m","e","t","r","i","c","s">>

\* The pattern of mux.HandleFunc("/health", ...).
HealthPattern == <<"/","h","e","a","l","t","h">>

PathRoot == <<"/">>
PathHealthSubtree == <<"/","h","e","a","l","t","h","/">>
PathOther == <<"/","x">>

\* MetricsPath(path); empty without the option.
MetricsPathOptions ==
    {<< >>, DefaultMetricsPath, PathRoot, HealthPattern, PathHealthSubtree, PathOther}

\* The paths and methods of the requests.
RequestPaths == {HealthPattern, DefaultMetricsPath, PathRoot, PathHealthSubtree, PathOther}
Methods == {"GET", "POST"}

\* Validate: if o.path == "" { o.path = DefaultMetricsPath }
ValidatePath(path) == IF path = << >> THEN DefaultMetricsPath ELSE path

\* http.NewServeMux()
NoMux == [state |-> "none", handlers |-> EmptyMap]

\* mux.Handle(pattern, handler) panics when the pattern is registered already.
MuxHandlePanics(handlers, pattern) == pattern \in DOMAIN handlers
MuxHandle(handlers, pattern, handler) == (pattern :> handler) @@ handlers

\* server.start up to the handlers: the exposition handler at s.path, then
\* the health handler.  A panic of the second registration leaves start
\* before the server is built.
RegisterHandlers ==
    /\ hmux.state = "none"
    /\ LET h1 == MuxHandle(EmptyMap, ValidatePath(hpath), "metrics")
       IN  hmux' = IF MuxHandlePanics(h1, HealthPattern)
                   THEN [state |-> "panicked", handlers |-> h1]
                   ELSE [state |-> "serving",
                         handlers |-> MuxHandle(h1, HealthPattern, "health")]
    /\ UNCHANGED <<hpath, hlog>>
    /\ UNCHANGED notHandlerVars

\* A pattern ending in "/" matches the paths it is a prefix of.
IsSubtreeOf(pattern, path) ==
    /\ Len(pattern) >= 1
    /\ pattern[Len(pattern)] = "/"
    /\ Len(pattern) <= Len(path)
    /\ SubSeq(path, 1, Len(pattern)) = pattern

\* ServeMux: the handler of the pattern equal to the path, else of the
\* longest pattern the path is in the subtree of, else NotFound.
MuxMatchSubtreeFirst(handlers, path) ==
    LET subtrees == {q \in DOMAIN handlers : IsSubtreeOf(q, path)}
    IN  IF subtrees # {}
        THEN handlers[CHOOSE q \in subtrees : \A r \in subtrees : Len(r) <= Len(q)]
        ELSE IF path \in DOMAIN handlers THEN handlers[path] ELSE "notfound"
MuxMatch(handlers, path) ==
    LET subtrees == {q \in DOMAIN handlers : IsSubtreeOf(q, path)}
    IN  IF path \in DOMAIN handlers THEN handlers[path]
        ELSE IF subtrees # {}
        THEN handlers[CHOOSE q \in subtrees : \A r \in subtrees : Len(r) <= Len(q)]
        ELSE "notfound"

\* What the handler writes: the health handler WriteHeader(http.StatusOK) and
\* "OK", promhttp the exposition of the registry, NotFound a 404.
Respond(handler) ==
    CASE handler = "health"   -> [status |-> 200, body |-> "OK"]
      [] handler = "metrics"  -> [status |-> 200, body |-> "exposition"]
      [] handler = "notfound" -> [status |-> 404, body |-> "404 page not found"]

\* The serving server answers a request.
HandleRequest(method, path) ==
    /\ hmux.state = "serving"
    /\ Len(hlog) < MaxRequests
    /\ LET r == Respond(MuxMatch(hmux.handlers, path))
       IN  hlog' = Append(hlog, [method |-> method, path |-> path,
                                 status |-> r.status, body |-> r.body])
    /\ UNCHANGED <<hpath, hmux>>
    /\ UNCHANGED notHandlerVars

(***************************************************************************)
(* Specifications.                                                         *)
(***************************************************************************)
\* The state after Dial(MetricPrefix("base")): the prefix-less store 1, the
\* active driver store 2 = store1.WithPrefix("base"), an empty registry.
\* The server part starts with no server (currentServer = nil).
\* The state after Dial with the resolved prefix o.prefix: the root store
\* without a prefix, and the store of prom.WithPrefix(o.prefix), which is
\* the active driver; no server call has been made.
InitDialled(prefix) ==
    /\ \E o \in DialOptions :
         LET root == newPrometheus(EmptyStr, o.namespace, o.subsystem)
         IN  stores = << [root EXCEPT !.prefixes = (CacheKey(prefix) :> 2)],
                         newPrometheus(DerivedPrefix(root, prefix),
                                       root.namespace, root.subsystem) >>
    /\ handles = << >>
    /\ registry = {}
    /\ mu = <<0, 0>>
    /\ mapLock = <<0, 0>>
    /\ th = [t \in Threads |-> Idle]
    /\ ncalls = 0
    /\ done = {}
    /\ requested = EmptyMap
    /\ serverMu = 0
    /\ currentServer = 0
    /\ servers = << >>
    /\ sth = [t \in SrvThreads |-> SrvIdle]
    /\ nstops = 0

\* Dial(MetricPrefix("base")).
InitStoresAndServer == InitDialled(PrefixBase)

\* No MustDial or TryDial call has been made.
InitNoDial ==
    /\ dport = 0
    /\ md = MdIdle
    /\ td = TdIdle

\* The application gives no port option and the environment sets neither
\* variable.
InitDefaultPort ==
    /\ dopt = 0
    /\ environ = [v \in {"SVCKIT_METRIC_PROMETHEUS_PORT", "PROMETHEUS_PORT"} |-> EnvUnset]

\* sanitizeName has not been applied outside the driver calls.
InitNoSanitize ==
    /\ sname = << >>
    /\ souts = << >>

\* No MetricsPath option, no handler registered, no request served.
InitNoRequests ==
    /\ hpath = << >>
    /\ hmux = NoMux
    /\ hlog = << >>

Init ==
    /\ InitStoresAndServer
    /\ InitNoDial
    /\ InitDefaultPort
    /\ InitNoSanitize
    /\ InitNoRequests

\* Any port option and any environment.
InitDial ==
    /\ InitStoresAndServer
    /\ InitNoDial
    /\ dopt \in PortOptions
    /\ environ \in Environments
    /\ InitNoSanitize
    /\ InitNoRequests

\* The metric stores and the prefix cache under concurrent callers.
Next ==
    \/ \E t \in Threads, s \in Callable, n \in Names, v \in CounterArgs :
          Counter(t, s, n, v)
    \/ \E t \in Threads, s \in Callable, n \in Names, v \in GaugeArgs :
          Gauge(t, s, n, v)
    \/ \E t \in Threads, s \in Callable, n \in Names, d \in TimeArgs :
          Time(t, s, n, d)
    \/ \E t \in Threads, s \in Callable, x \in PrefixArgs : WithPrefix(t, s, x)
    \/ \E t \in Threads, s \in Callable, x \in SuffixArgs : AppendSuffix(t, s, x)
    \/ \E t \in Threads : Lock(t)
    \/ \E t \in Threads : SlowPath(t)
    \/ \E t \in Threads : Update(t)
    \/ \E t \in Threads : WithPrefixCreate(t)

Spec == Init /\ [][Next]_vars

\* The next step of the call goroutine t is in.
Continue(t) == Lock(t) \/ SlowPath(t) \/ Update(t) \/ WithPrefixCreate(t)

\* Counter, Gauge, Time, WithPrefix and AppendSuffix called concurrently on
\* the active driver and on the stores derived from it.
NextLocks ==
    \/ \E t \in Threads, s \in Callable : Counter(t, s, NameRequests, << >>)
    \/ \E t \in Threads, s \in Callable : Gauge(t, s, NameRequests, 42)
    \/ \E t \in Threads, s \in Callable : Time(t, s, NameAB, 1500000)
    \/ \E t \in Threads, s \in Callable : WithPrefix(t, s, PrefixApi)
    \/ \E t \in Threads, s \in Callable : AppendSuffix(t, s, SuffixV1)
    \/ \E t \in Threads : Lock(t)
    \/ \E t \in Threads : SlowPath(t)
    \/ \E t \in Threads : Update(t)
    \/ \E t \in Threads : WithPrefixCreate(t)

\* The scheduler runs every goroutine that can run, and a goroutine waiting
\* for a mutex gets it once it stays free.
SpecLive == Init /\ [][NextLocks]_vars /\ \A t \in Threads : WF_vars(Continue(t))

\* The resolved prefix of Dial: empty (no MetricPrefix option, no
\* application name), the application name with the separator, or "base".
PrefixApp == <<"a","p","p",".">>
DialPrefixes == {EmptyStr, PrefixApp, PrefixBase}

\* The strings passed to WithPrefix and AppendSuffix, the empty one included.
PrefixStrings == {EmptyStr, PrefixApi, PrefixApiDot}
SuffixStrings == {EmptyStr, SuffixV1}

InitPrefixes ==
    /\ \E prefix \in DialPrefixes : InitDialled(prefix)
    /\ InitNoDial
    /\ InitDefaultPort
    /\ InitNoSanitize
    /\ InitNoRequests

\* WithPrefix, AppendSuffix and Counter on the active driver and the stores
\* derived from it, after a Dial with any of the prefixes.
NextPrefixes ==
    \/ \E t \in Threads, s \in Callable, x \in PrefixStrings : WithPrefix(t, s, x)
    \/ \E t \in Threads, s \in Callable, x \in SuffixStrings : AppendSuffix(t, s, x)
    \/ \E t \in Threads, s \in Callable : Counter(t, s, NameRequests, << >>)
    \/ \E t \in Threads : Lock(t)
    \/ \E t \in Threads : SlowPath(t)
    \/ \E t \in Threads : Update(t)
    \/ \E t \in Threads : WithPrefixCreate(t)

SpecPrefixes == InitPrefixes /\ [][NextPrefixes]_vars

\* The exposition server under concurrent startServer / stopServer callers.
NextServer ==
    \/ \E t \in SrvThreads, port \in Ports : StartServerCall(t, port)
    \/ \E t \in SrvThreads : StopServerCall(t)
    \/ \E t \in SrvThreads : ServerLock(t)
    \/ \E t \in SrvThreads : StopBegin(t)
    \/ \E t \in SrvThreads : ShutdownDrained(t)
    \/ \E t \in SrvThreads : ShutdownTimeout(t)
    \/ \E t \in SrvThreads : StopWait(t)
    \/ \E t \in SrvThreads : StopReturn(t)
    \/ \E t \in SrvThreads : NewAndStart(t)
    \/ \E t \in SrvThreads : ServerUnlock(t)
    \/ \E i \in 1..Len(servers) : GoListenAndServe(i)
    \/ \E i \in 1..Len(servers) : GoListen(i)
    \/ \E i \in 1..Len(servers) : GoListenFails(i)
    \/ \E i \in 1..Len(servers) : GoServe(i)
    \/ \E i \in 1..Len(servers) : GoServeReturns(i)
    \/ \E i \in 1..Len(servers) : RequestBegins(i)
    \/ \E i \in 1..Len(servers) : RequestEnds(i)

SpecServer == Init /\ [][NextServer]_vars

\* MustDial and TryDial, for every port option and environment, and every
\* error value of every Dial call.
NextDial ==
    \/ MustDialCall
    \/ \E err \in DialErrors : MustDialAttempt(err)
    \/ MustDialSleep
    \/ TryDialCall
    \/ \E err \in DialErrors : TryDialFirst(err)
    \/ \E err \in DialErrors : BackoffAttempt(err)
    \/ BackoffWait
    \/ BackoffExpires

SpecDial == InitDial /\ [][NextDial]_vars

\* sanitizeName applied to any string.
InitSanitize ==
    /\ InitStoresAndServer
    /\ InitNoDial
    /\ InitDefaultPort
    /\ sname \in NameStrings
    /\ souts = << >>
    /\ InitNoRequests

NextSanitize == SanitizeCall

SpecSanitize == InitSanitize /\ [][NextSanitize]_vars

\* The handlers of a server started with any MetricsPath option, and the
\* requests it answers.
InitHandlers ==
    /\ InitStoresAndServer
    /\ InitNoDial
    /\ InitDefaultPort
    /\ InitNoSanitize
    /\ hpath \in MetricsPathOptions
    /\ hmux = NoMux
    /\ hlog = << >>

NextHandlers ==
    \/ RegisterHandlers
    \/ \E method \in Methods, path \in RequestPaths : HandleRequest(method, path)

SpecHandlers == InitHandlers /\ [][NextHandlers]_vars

\* One goroutine recording metrics on the active driver while another
\* starts and stops the exposition server.
NextRecording ==
    \/ Counter(1, 2, NameRequests, <<2, 3>>)
    \/ Gauge(1, 2, NameAB, 42)
    \/ \E d \in TimeArgs : Time(1, 2, NameA_B, d)
    \/ Lock(1)
    \/ SlowPath(1)
    \/ Update(1)

NextStartStop ==
    \/ StartServerCall(1, DefaultHTTPPort)
    \/ StopServerCall(1)
    \/ ServerLock(1)
    \/ StopBegin(1)
    \/ ShutdownDrained(1)
    \/ ShutdownTimeout(1)
    \/ StopWait(1)
    \/ StopReturn(1)
    \/ NewAndStart(1)
    \/ ServerUnlock(1)
    \/ \E i \in 1..Len(servers) : GoListenAndServe(i)
    \/ \E i \in 1..Len(servers) : GoListen(i)
    \/ \E i \in 1..Len(servers) : GoListenFails(i)
    \/ \E i \in 1..Len(servers) : GoServe(i)
    \/ \E i \in 1..Len(servers) : GoServeReturns(i)
    \/ \E i \in 1..Len(servers) : RequestBegins(i)
    \/ \E i \in 1..Len(servers) : RequestEnds(i)

NextFrame == NextRecording \/ NextStartStop

SpecFrame == Init /\ [][NextFrame]_vars

(***************************************************************************)
(* Properties.                                                             *)
(***************************************************************************)
MetricOps == {"Counter", "Gauge", "Time"}
PrefixOps == {"WithPrefix", "AppendSuffix"}
StoreIds == 1..Len(stores)

\* The calls of kind k that obtained a collector from getOrCreate: the store
\* and raw name they went through, and the collector they obtained.
Obtained(k) ==
    {[store |-> d.store, name |-> d.name, h |-> d.h] :
        d \in {e \in done : e.op \in MetricOps /\ KindOf(e.op) = k}}
    \cup
    {[store |-> th[t].store, name |-> th[t].name, h |-> th[t].h] :
        t \in {u \in Threads : th[u].pc = "update" /\ KindOf(th[u].op) = k}}

\* The collectors registered under the fully-qualified name fq.
RegisteredAs(fq) == {g \in registry : handles[g].fqName = fq}

\* No goroutine is between obtaining collector g and updating it.
NoUpdatePending(g) == \A t \in Threads : ~(th[t].pc = "update" /\ th[t].h = g)

\* The value of collector g reflects every update asked for under its name.
ReflectsAll(g) ==
    LET r == Req(handles[g].fqName)
    IN  CASE handles[g].kind = "Counter"   -> handles[g].val = r.nonneg
          [] handles[g].kind = "Gauge"     -> r.calls["Gauge"] > 0 => handles[g].val = r.last
          [] handles[g].kind = "Histogram" -> handles[g].cnt = r.calls["Time"]

\* The fully-qualified name fq is held by a collector of another kind than k.
HeldByOtherKind(fq, k) == \E g \in RegisteredAs(fq) : handles[g].kind # k

C2_SameKindAdoption ==
    \A k \in Kinds, s1 \in StoreIds :
        \A n1 \in DOMAIN MapOf(stores[s1], k) :
            \A c \in Obtained(k) :
                LET g  == MapOf(stores[s1], k)[n1]
                    m2 == MapOf(stores[c.store], k)
                IN  FullName(c.store, c.name) = FullName(s1, n1)
                    => /\ c.h = g
                       /\ c.name \in DOMAIN m2
                       /\ m2[c.name] = g
                       /\ RegisteredAs(FullName(s1, n1)) = {g}
                       /\ handles[g].kind = k
                       /\ NoUpdatePending(g) => ReflectsAll(g)

\* Counter calls returned on two different paths to one collector, cached on
\* both, whose value is the sum of both updates.
C2_Witness ==
    \E d1, d2 \in done :
        /\ d1.op = "Counter" /\ d2.op = "Counter"
        /\ d1.store # d2.store
        /\ d1.h = d2.h
        /\ d1.h \in registry
        /\ stores[d1.store].counters[d1.name] = d1.h
        /\ stores[d2.store].counters[d2.name] = d1.h
        /\ handles[d1.h].val = 6

\* The calls of kind k that obtained a collector no store caches and the
\* registry does not hold: the fallback of a failed registration.
FellBack(k) == {c \in Obtained(k) : c.h \notin registry}

\* Goroutine t leaves the slow path of getOrCreate with a fallback collector.
FallsBack(t) ==
    /\ th[t].pc = "slow"
    /\ th'[t].pc = "update"
    /\ th'[t].h \notin registry'

\* Goroutine t updates a fallback collector.
UpdatesFallback(t) ==
    /\ th[t].pc = "update"
    /\ th'[t].pc = "idle"
    /\ th[t].h \notin registry

\* The values the registry exposes are the same before and after the step.
ExposedUnchanged ==
    /\ registry' = registry
    /\ \A g \in registry : handles'[g] = handles[g]

\* C3, in every state: a call of kind k whose fully-qualified name the
\* registry holds as a collector of another kind obtained a collector of
\* kind k under that name which is not registered, is not the registered
\* one, is cached nowhere and was handed to no other call; the call returns
\* normally unless Counter's amount is negative (C5).
C3_FallbackIsOwnHandle ==
    \A k \in Kinds :
        \A c \in Obtained(k) :
            LET fq == FullName(c.store, c.name)
            IN  HeldByOtherKind(fq, k)
                => /\ c.h \notin registry
                   /\ handles[c.h].kind = k
                   /\ handles[c.h].fqName = fq
                   /\ \A s \in StoreIds, j \in Kinds :
                         \A n \in DOMAIN MapOf(stores[s], j) :
                            MapOf(stores[s], j)[n] # c.h
                   /\ \A t1, t2 \in Threads :
                         (t1 # t2 /\ th[t1].pc = "update" /\ th[t2].pc = "update")
                         => ~(th[t1].h = c.h /\ th[t2].h = c.h)
                   /\ \A d \in done :
                         (d.op \in MetricOps /\ d.h = c.h)
                         => /\ d.n = 1
                            /\ d.store = c.store /\ d.name = c.name /\ KindOf(d.op) = k
                            /\ NoUpdatePending(c.h)
                            /\ d.fault => (k = "Counter" /\ handles[c.h].val = 0)

\* C3, in every step: falling back leaves the registry and every value it
\* exposes unchanged, and so does an update of a fallback collector.
C3_FallbackLeavesRegistry ==
    \A t \in Threads : (FallsBack(t) \/ UpdatesFallback(t)) => ExposedUnchanged

\* C3: kind-mismatch registration conflict degrades without error, for every
\* ordered pair of distinct kinds: the call gets the store's own new
\* unregistered collector of its kind, never the registered one, the
\* registry is left unchanged, and updates of the returned collector change
\* no value the registry exposes.
C3_KindMismatchFallback ==
    /\ []C3_FallbackIsOwnHandle
    /\ [][C3_FallbackLeavesRegistry]_vars

\* A Counter call returned a fallback collector and added 5 to it while a
\* Gauge set to 42 holds the name and still exposes 42.
C3_Witness ==
    \E d \in done :
        /\ d.op = "Counter" /\ ~d.fault
        /\ d.h \notin registry
        /\ handles[d.h].kind = "Counter"
        /\ handles[d.h].val = 5
        /\ \E g \in RegisteredAs(FullName(d.store, d.name)) :
              handles[g].kind = "Gauge" /\ handles[g].val = 42

\* C4: every call of getOrCreate on one store with the same name and kind
\* returns the same collector as the first such call.
C4_HandleCreatedOnce ==
    \A k \in Kinds :
        \A c1, c2 \in Obtained(k) :
            (c1.store = c2.store /\ c1.name = c2.name) => c1.h = c2.h

\* C5 as stated: the value a registered counter exposes is the sum of the
\* increments the Counter calls on its name asked for.
C5_ExposesSumOfIncrements ==
    /\ \A v \in CounterArgs : CounterValue(v) = Increment(v)
    /\ \A g \in registry :
          handles[g].kind = "Counter"
          => handles[g].val = Req(handles[g].fqName).sum

\* C5, amended: Counter(name) asks for 1 and Counter(name, v1..vN) for
\* v1+...+vN; a non-negative amount is added, a negative amount makes the
\* counter panic and adds nothing.  The value a registered counter exposes is
\* the sum of the non-negative increments asked for under its name.
C5_ExposesSumOfNonNegativeIncrements ==
    /\ \A v \in CounterArgs : CounterValue(v) = Increment(v)
    /\ \A g \in registry :
          LET r == Req(handles[g].fqName)
          IN  handles[g].kind = "Counter"
              => /\ handles[g].val = r.nonneg
                 /\ r.sum # r.nonneg
                    => \E d \in done : /\ d.op = "Counter" /\ d.fault
                                       /\ d.h = g
    /\ \A d \in done : d.fault => d.op = "Counter"

\* Counter("requests") then Counter("requests", 2, 3) on one store: the
\* registered counter exposes 6.
C5_Witness ==
    \E g \in registry :
        /\ handles[g].kind = "Counter"
        /\ handles[g].val = 6
        /\ Req(handles[g].fqName).calls["Counter"] = 2
        /\ Req(handles[g].fqName).sum = 6
        /\ \E d \in done : d.op = "Counter" /\ d.h = g /\ d.n = 1 /\ d.name = NameRequests
        /\ Cardinality({d \in done : d.h = g /\ d.op = "Counter"}) = 2

\* C6: Gauge(name, value) overwrites: once a Gauge call on its name has
\* returned, the value a registered gauge exposes is the value of the last
\* such call, whatever was set before.
C6_GaugeExposesLastValue ==
    \A g \in registry :
        LET r == Req(handles[g].fqName)
        IN  (handles[g].kind = "Gauge" /\ r.calls["Gauge"] > 0)
            => /\ handles[g].val = r.last
               /\ handles[g].val \in r.sets

\* Gauge("requests", 42) then Gauge("requests", -5): the gauge exposes -5.
C6_Witness ==
    \E g \in registry :
        /\ handles[g].kind = "Gauge"
        /\ handles[g].val = -5
        /\ Req(handles[g].fqName).calls["Gauge"] = 2
        /\ Req(handles[g].fqName).sets = {42, -5}
        /\ Req(handles[g].fqName).last = -5

\* The entries (parent, key) of the prefix caches that hold store s.
CachedAs(s) ==
    {e \in UNION {{<<p, key>> : key \in DOMAIN stores[p].prefixes} : p \in StoreIds} :
        stores[e[1]].prefixes[e[2]] = s}

\* C7: every WithPrefix call with one string on one parent store returned
\* the store the parent caches under that string, hence all of them the same
\* store, and every derived store is held by exactly one cache entry: no
\* call created a second store for a string that already had one.
C7_PrefixCacheStable ==
    /\ \A d \in done :
          d.op = "WithPrefix"
          => /\ d.name \in DOMAIN stores[d.store].prefixes
             /\ stores[d.store].prefixes[d.name] = d.h
             /\ d.h \in Callable
    /\ \A d1, d2 \in done :
          (d1.op = "WithPrefix" /\ d2.op = "WithPrefix"
             /\ d1.store = d2.store /\ d1.name = d2.name) => d1.h = d2.h
    /\ \A s \in Callable : Cardinality(CachedAs(s)) = 1

\* WithPrefix("api") returned twice on the active driver, both times the
\* store created by the first call.
C7_Witness ==
    \E d \in done :
        /\ d.op = "WithPrefix" /\ d.store = 2 /\ d.name = PrefixApi
        /\ d.n = 2
        /\ d.h = 3
        /\ stores[2].prefixes[PrefixApi] = 3

\* The string with the separator appended when it does not end with it.
WithSeparator(x) == IF x # << >> /\ x[Len(x)] = "." THEN x ELSE x \o <<".">>

\* C8: a collector obtained through a store cached under the string x is
\* named sanitize(x') + sanitize(n), x' being x with the separator appended
\* when missing, whatever the prefix of the parent; so "api" and "requests"
\* give api_requests, and "custom" on the driver dialed with "base" gives
\* custom_requests and custom_a_b.
C8_PrefixedName ==
    /\ \A p \in StoreIds :
          \A x \in DOMAIN stores[p].prefixes :
             \A k \in Kinds :
                \A c \in Obtained(k) :
                   c.store = stores[p].prefixes[x]
                   => /\ handles[c.h].name =
                            sanitizeName(WithSeparator(x)) \o sanitizeName(c.name)
                      /\ handles[c.h].fqName = handles[c.h].name
                      /\ (x = PrefixApi /\ c.name = NameRequests)
                         => handles[c.h].name =
                              <<"a","p","i","_","r","e","q","u","e","s","t","s">>
                      /\ (x = PrefixCustom /\ c.name = NameRequests)
                         => handles[c.h].name =
                              <<"c","u","s","t","o","m","_","r","e","q","u","e","s","t","s">>
                      /\ (x = PrefixCustom /\ c.name = NameAB)
                         => handles[c.h].name =
                              <<"c","u","s","t","o","m","_","a","_","b">>
    /\ sanitizeName(PrefixApiDot \o NameAB) = <<"a","p","i","_","a","_","b">>

\* WithPrefix("api") on the driver dialed with "base", then
\* Counter("requests"): the registered counter is named api_requests.
C8_Witness ==
    \E d \in done :
        /\ d.op = "Counter" /\ d.name = NameRequests
        /\ d.h \in registry
        /\ PrefixApi \in DOMAIN stores[2].prefixes
        /\ d.store = stores[2].prefixes[PrefixApi]
        /\ stores[2].prefix = <<"b","a","s","e",".">>
        /\ handles[d.h].fqName = <<"a","p","i","_","r","e","q","u","e","s","t","s">>

\* TRUE when sequence x starts with sequence y.
StartsWith(x, y) == Len(y) <= Len(x) /\ SubSeq(x, 1, Len(y)) = y

\* C9: AppendSuffix(suffix) on a parent returned the store the parent caches
\* under parent.prefix + suffix, the store WithPrefix with that string
\* returns on the parent; its prefix is that string with the separator and so
\* extends the parent's prefix.  On the store of WithPrefix("api"),
\* AppendSuffix("v1") then Counter("requests") names the collector
\* api_v1_requests.
C9_AppendSuffixIsWithPrefix ==
    \A d \in done :
        d.op = "AppendSuffix"
        => LET parent == stores[d.store]
               key == parent.prefix \o d.name
           IN  /\ key \in DOMAIN parent.prefixes
               /\ parent.prefixes[key] = d.h
               /\ stores[d.h].prefix = WithSeparator(key)
               /\ StartsWith(stores[d.h].prefix, parent.prefix)
               /\ \A e \in done :
                     (e.op = "WithPrefix" /\ e.store = d.store /\ e.name = key)
                     => e.h = d.h
               /\ \A c \in Obtained("Counter") :
                     (c.store = d.h /\ c.name = NameRequests
                        /\ parent.prefix = <<"a","p","i",".">> /\ d.name = SuffixV1)
                     => handles[c.h].name =
                          <<"a","p","i","_","v","1","_","r","e","q","u","e","s","t","s">>

\* WithPrefix("api"), AppendSuffix("v1") on its store, Counter("requests")
\* on the store that returned: the registered counter is api_v1_requests.
C9_Witness ==
    \E d, c \in done :
        /\ d.op = "AppendSuffix" /\ d.name = SuffixV1
        /\ stores[d.store].prefix = <<"a","p","i",".">>
        /\ c.op = "Counter" /\ c.store = d.h /\ c.name = NameRequests
        /\ c.h \in registry
        /\ handles[c.h].fqName =
              <<"a","p","i","_","v","1","_","r","e","q","u","e","s","t","s">>

\* AppendSuffix("v1") and WithPrefix("api.v1") both returned on the store of
\* WithPrefix("api"), with the same store.
C9_WitnessSameStore ==
    \E d, e \in done :
        /\ d.op = "AppendSuffix" /\ d.name = SuffixV1
        /\ e.op = "WithPrefix" /\ e.name = PrefixApiV1
        /\ d.store = e.store
        /\ d.h = e.h

ServerIds == 1..Len(servers)

\* The instances stop() has not returned for.
NotStopped == {i \in ServerIds : ~servers[i].stopped}

\* The instances that hold the port: net.Listen returned and the listener is
\* not closed.
HoldingPort == {i \in ServerIds : servers[i].lis \in {"bound", "listening"}}

\* C10: the exposition server is replaced, not stacked: at most one instance
\* is not stopped, and it is the last one created; every earlier instance
\* was stopped before the next one was created; a stopped instance holds no
\* listener, so no two instances hold a port at once, the same port least of
\* all; currentServer is nil or the last instance, and it is the new
\* instance when startServer returns.
C10_ServerReplacedNotStacked ==
    /\ Cardinality(NotStopped) <= 1
    /\ \A i \in ServerIds : i < Len(servers) => servers[i].stopped
    /\ \A i \in ServerIds : servers[i].stopped => i \notin HoldingPort
    /\ Cardinality(HoldingPort) <= 1
    /\ \A i, j \in HoldingPort : servers[i].port = servers[j].port => i = j
    /\ currentServer \in {0, Len(servers)}
    /\ \A t \in SrvThreads :
          (sth[t].pc = "unlock" /\ sth[t].op = "start")
          => /\ currentServer = sth[t].inst
             /\ currentServer = Len(servers)
             /\ ~servers[currentServer].stopped

\* startServer on the port a listening instance holds: the old instance is
\* stopped and its listener closed, the new instance listens on the port and
\* is the current one.
C10_Witness ==
    /\ Len(servers) = 2
    /\ servers[1].port = servers[2].port
    /\ servers[1].stopped /\ servers[1].lis = "closed"
    /\ ~servers[2].stopped /\ servers[2].lis = "listening"
    /\ currentServer = 2
    /\ \A t \in SrvThreads : sth[t].pc = "idle"

\* C11: a startServer call whose instance fails to bind the port returns a
\* non-nil error to its caller.
C11_BindErrorReturned ==
    \A t \in SrvThreads :
        (/\ sth[t].pc = "unlock" /\ sth[t].op = "start"
         /\ servers[sth[t].inst].lis = "failed")
        => sth[t].err

\* The startServer call that created instance i has returned.
StartReturned(i) ==
    \A t \in SrvThreads : ~(sth[t].op = "start" /\ sth[t].inst = i /\ sth[t].pc = "unlock")

\* C12: once startServer has returned, an instance whose listener failed to
\* bind is not recorded as the current server.
C12_FailedStartLeavesAbsent ==
    \A i \in ServerIds :
        (servers[i].lis = "failed" /\ StartReturned(i)) => currentServer # i

\* Goroutine t, in stopServer, finds no current server.
StopsNothing(t) ==
    /\ sth[t].op = "stop"
    /\ sth[t].pc = "lock"
    /\ sth'[t].pc = "unlock"

\* C13 as stated: every stopServer / Close call returns success.
C13_EveryCloseSucceeds ==
    \A t \in SrvThreads :
        (sth[t].pc = "unlock" /\ sth[t].op = "stop") => ~sth[t].err

\* C13, in every state: when stopServer returns no server is current; a call
\* that found no current server returns success; an error is returned only
\* by the call that stopped an instance; no instance is stopped twice.
C13_CloseLeavesAbsent ==
    /\ \A t \in SrvThreads :
          (sth[t].pc = "unlock" /\ sth[t].op = "stop")
          => /\ currentServer = 0
             /\ sth[t].inst = 0 => ~sth[t].err
             /\ sth[t].err => (sth[t].inst \in ServerIds /\ servers[sth[t].inst].stopped)
    /\ \A i \in ServerIds : servers[i].closes <= 1

\* C13, in every step: stopServer with no current server changes neither the
\* reference nor any instance.
C13_CloseWithoutServerIsNoOp ==
    \A t \in SrvThreads :
        StopsNothing(t)
        => /\ currentServer = 0
           /\ currentServer' = 0
           /\ servers' = servers

\* C13, amended: stopServer / Close with no current server is a no-op that
\* returns success, and every stopServer leaves no current server; only the
\* call that stops an instance can return an error (Shutdown's, when requests
\* in flight outlast the grace period).
C13_StopIsIdempotent ==
    /\ []C13_CloseLeavesAbsent
    /\ [][C13_CloseWithoutServerIsNoOp]_vars

\* A second stopServer after one startServer: it found no current server
\* and returns success, the one instance stays stopped.
C13_Witness ==
    \E t \in SrvThreads :
        /\ sth[t].pc = "unlock" /\ sth[t].op = "stop"
        /\ sth[t].inst = 0 /\ ~sth[t].err
        /\ nstops = 2
        /\ Len(servers) = 1 /\ servers[1].stopped /\ servers[1].closes = 1
        /\ currentServer = 0

TryDialConnected == td.calls >= 1 /\ ~td.err

\* The caller of TryDial has it return in this step.
TryDialReturns == td.caller = "idle" /\ td'.caller = "returned"

\* No Dial is made before the call, the first Dial of the task comes before
\* any wait, a Dial that returned nil ends the task, and the task ends only
\* by such a Dial or by the expiry of the overall bound.
C15_RetriesOnlyOnFailure ==
    /\ td.caller = "idle" => (td.g = "none" /\ td.calls = 0)
    /\ td.g = "first" => (td.calls = 0 /\ td.waits = 0)
    /\ td.calls >= 1 => td.waits <= td.calls - 1
    /\ TryDialConnected => td.g = "done"
    /\ td.g = "done" => (TryDialConnected \/ td.expired)
    /\ td.expired => td.err

\* TryDial returns in one step of its caller, without a Dial and whatever
\* the task does later; after a Dial that returned nil there is no other.
C15_CallerNeverWaits ==
    /\ TryDialReturns => (td'.calls = td.calls /\ td.calls = 0 /\ dport' = dport)
    /\ (td.caller = "idle" /\ Alive) => ENABLED TryDialCall
    /\ TryDialConnected => td' = td

\* C15: TryDial never blocks its caller and retries only on failure: it
\* returns without waiting for any Dial, its background task makes one
\* immediate Dial, makes no other Dial once one has succeeded, and otherwise
\* retries until a Dial succeeds or the overall bound expires.
C15_TryDialNonBlocking ==
    []C15_RetriesOnlyOnFailure /\ [][C15_CallerNeverWaits]_vars

\* The caller has returned, and the task has ended with its third Dial, the
\* first to succeed: its own Dial, the one WithBackoff makes at once, and
\* the one after the first wait.
C15_Witness ==
    /\ td.caller = "returned"
    /\ td.g = "done"
    /\ TryDialConnected
    /\ ~td.expired
    /\ td.calls = 3
    /\ td.waits = 1

\* Some Dial has been made, so the options have been validated.
Dialled == md.calls + td.calls >= 1

\* The port an environment value stands for, 0 when it does not match (it
\* is unset or empty, is no decimal number, or is not positive).
PortOfValue(v) ==
    IF v = <<"9", "0", "9", "0">> THEN 9090
    ELSE IF v = <<"8", "0", "8", "0">> THEN 8080
    ELSE IF v = <<"+", "7", "0">> THEN 70
    ELSE 0

\* C20: an explicit non-zero port option is always used; otherwise the port
\* is the value of the first of SVCKIT_METRIC_PROMETHEUS_PORT and
\* PROMETHEUS_PORT that matches, and 2112 when neither matches; the port is
\* never 0 after Validate.
C20_PortResolution ==
    Dialled =>
        /\ dport # 0
        /\ dopt # 0 => dport = dopt
        /\ dopt = 0 =>
             dport = IF PortOfValue(environ["SVCKIT_METRIC_PROMETHEUS_PORT"]) # 0
                     THEN PortOfValue(environ["SVCKIT_METRIC_PROMETHEUS_PORT"])
                     ELSE IF PortOfValue(environ["PROMETHEUS_PORT"]) # 0
                          THEN PortOfValue(environ["PROMETHEUS_PORT"])
                          ELSE 2112

\* Without a port option, both variables match and the first one wins.
C20_Witness ==
    /\ Dialled
    /\ dopt = 0
    /\ environ["SVCKIT_METRIC_PROMETHEUS_PORT"] = Env9090
    /\ environ["PROMETHEUS_PORT"] = Env8080
    /\ dport = 9090

\* ^[A-Za-z_][A-Za-z0-9_:]*$
MatchesIdentifierGrammar(s) ==
    /\ Len(s) >= 1
    /\ s[1] \in Lower \cup Upper \cup {"_"}
    /\ \A i \in 1..Len(s) : s[i] \in Lower \cup Upper \cup Digit \cup {"_", ":"}

\* C17 (as stated): for every string s, the empty string included,
\* sanitizeName(s) matches ^[A-Za-z_][A-Za-z0-9_:]*$: it is not empty, starts
\* with a letter or an underscore and holds only letters, digits, underscores
\* and colons.
C17_SanitizedMatchesGrammar ==
    \A i \in 1..Len(souts) : MatchesIdentifierGrammar(souts[i])

\* C18: sanitizeName is idempotent: applied to its own result it returns
\* that result.
C18_SanitizeIdempotent ==
    \A i \in 2..Len(souts) : souts[i] = souts[i - 1]

\* sanitizeName has changed every character of "1.-", put an underscore in
\* front, and been applied to the result.
C18_Witness ==
    /\ sname = <<"1", ".", "-">>
    /\ Len(souts) = 2
    /\ souts[1] = <<"_", "1", "_", "_">>
    /\ souts[2] = souts[1]

\* C19: when a server is running, a GET of /health returns status 200 with
\* body OK whatever exposition path was configured, and the health path is
\* fixed: the health handler is registered at /health and nowhere else,
\* whatever the options.
C19_HealthAlwaysOK ==
    /\ \A i \in 1..Len(hlog) :
          (hlog[i].method = "GET" /\ hlog[i].path = <<"/","h","e","a","l","t","h">>)
              => (hlog[i].status = 200 /\ hlog[i].body = "OK")
    /\ hmux.state = "serving" =>
          {q \in DOMAIN hmux.handlers : hmux.handlers[q] = "health"}
              = {<<"/","h","e","a","l","t","h">>}

\* With the exposition at "/", the server answered GET /health with the
\* health handler and GET /x with the exposition.
C19_Witness ==
    /\ hpath = <<"/">>
    /\ hmux.state = "serving"
    /\ Len(hlog) = 2
    /\ hlog[1] = [method |-> "GET", path |-> <<"/","h","e","a","l","t","h">>,
                  status |-> 200, body |-> "OK"]
    /\ hlog[2].path = <<"/", "x">>
    /\ hlog[2].body = "exposition"

\* The step is one of startServer, stopServer (Close) or the serving
\* goroutine of an instance: binding, failing to bind, serving, stopping.
ServerStep == serverVars' # serverVars

\* Whatever the state of the server, the recording goroutine can start any
\* of its calls when it is idle, and take the next step of the call it is in.
RecordingNeverWaitsForServer ==
    /\ (th[1].pc = "idle" /\ ncalls < MaxCalls) =>
          /\ ENABLED Counter(1, 2, NameRequests, <<2, 3>>)
          /\ ENABLED Gauge(1, 2, NameAB, 42)
          /\ ENABLED Time(1, 2, NameA_B, 1500000)
    /\ th[1].pc = "lock" => ENABLED Lock(1)
    /\ th[1].pc = "slow" => ENABLED SlowPath(1)
    /\ th[1].pc = "update" => ENABLED Update(1)

\* Every registered collector with no update pending reflects all the
\* updates asked for under its name, and no call ended in a fault.
C16_RecordingUnaffected ==
    /\ \A g \in registry : NoUpdatePending(g) => ReflectsAll(g)
    /\ \A d \in done : ~d.fault
    /\ RecordingNeverWaitsForServer

\* The steps of the server leave the stores with their maps and prefix
\* caches, the collectors and the registry as they are.
C16_ServerLeavesStores ==
    ServerStep => (/\ stores' = stores
                   /\ handles' = handles
                   /\ registry' = registry
                   /\ storeVars' = storeVars)

\* C16: metric recording is independent of the exposition server: Close, a
\* failed start and an absent server leave the active driver, every store's
\* maps, the prefix caches and the registry unchanged, and Counter, Gauge and
\* Time calls made in any state of the server update the collectors and
\* return without an error.
C16_RecordingIndependentOfServer ==
    []C16_RecordingUnaffected /\ [][C16_ServerLeavesStores]_vars

\* The first instance failed to bind, the second has been stopped by Close
\* and the server is absent; two calls have returned and the third is about
\* to update its collector; the counter holds the 5 that was added.
C16_Witness ==
    /\ Len(servers) = 2
    /\ servers[1].lis = "failed"
    /\ servers[2].stopped
    /\ currentServer = 0
    /\ nstops >= 1
    /\ Cardinality(done) = 2
    /\ th[1].pc = "update"
    /\ \E g \in registry : handles[g].kind = "Counter" /\ handles[g].val = 5

\* What one character becomes: itself when it is a letter, a digit, an
\* underscore or a colon, an underscore otherwise (the dot included).
MappedChar(c) == IF c \in {"a", "Z", "1", "_", ":"} THEN c ELSE "_"

\* C21: sanitizeName maps character by character: every dot and every
\* character outside [A-Za-z0-9_:] becomes exactly one underscore, every
\* other character stays in place, and one underscore is put in front
\* exactly when the mapped string starts with a character that is neither a
\* letter nor an underscore; the result is as long as the argument, or one
\* longer.
C21_SanitizeMapsCharByChar ==
    Len(souts) >= 1 =>
        LET out == souts[1]
            off == Len(out) - Len(sname)
        IN  /\ off \in {0, 1}
            /\ off = 1 <=> (sname # << >> /\ MappedChar(sname[1]) \in {"1", ":"})
            /\ off = 1 => out[1] = "_"
            /\ \A i \in 1..Len(sname) : out[i + off] = MappedChar(sname[i])

\* "1:-" became "_1:_": the digit and the colon kept, the dash mapped, one
\* underscore in front.
C21_Witness ==
    /\ sname = <<"1", ":", "-">>
    /\ Len(souts) >= 1
    /\ souts[1] = <<"_", "1", ":", "_">>

\* The string a returned WithPrefix / AppendSuffix call asked its parent
\* for: the prefix as passed, or the parent's prefix followed by the suffix.
RequestedKey(d) ==
    IF d.op = "AppendSuffix" THEN stores[d.store].prefix \o d.name ELSE d.name

\* The strings asked of parent p: by the returned calls, and by Dial of the
\* root store.
RequestedOf(p) ==
    {RequestedKey(d) : d \in {e \in done : e.op \in PrefixOps /\ e.store = p}}
    \cup (IF p = 1 THEN {<<"b","a","s","e">>} ELSE {})

\* The keys of every cache are the strings as they were asked for, each key
\* holds a store of its own, and the prefix of that store is the key with
\* the separator appended when missing; so "api" and "api." are two entries
\* with two stores of prefix "api.".
C22_KeyedByRequestedString ==
    \A p \in StoreIds :
        LET cache == stores[p].prefixes
        IN  /\ DOMAIN cache = RequestedOf(p)
            /\ \A x \in DOMAIN cache : stores[cache[x]].prefix = WithSeparator(x)
            /\ \A x, y \in DOMAIN cache : x # y => cache[x] # cache[y]
            /\ {<<"a","p","i">>, <<"a","p","i",".">>} \subseteq DOMAIN cache
               => /\ cache[<<"a","p","i">>] # cache[<<"a","p","i",".">>]
                  /\ stores[cache[<<"a","p","i">>]].prefix = <<"a","p","i",".">>
                  /\ stores[cache[<<"a","p","i",".">>]].prefix = <<"a","p","i",".">>

\* A call that returns while its string is in the cache of its parent
\* returns the cached store and leaves every store, the parent's and the
\* cached one's configuration included, as it is.
C22_HitReturnsCached ==
    \A d \in done' \ done :
        (d.op \in PrefixOps /\ RequestedKey(d) \in DOMAIN stores[d.store].prefixes)
        => /\ d.h = stores[d.store].prefixes[RequestedKey(d)]
           /\ stores' = stores

\* C22: the prefix cache is keyed by the requested string before it is
\* normalized: WithPrefix("api") and WithPrefix("api.") on one parent make
\* two entries with two stores of the same prefix "api.", and a hit returns
\* the cached store without looking at its configuration.
C22_CacheKeyedByRawString ==
    []C22_KeyedByRequestedString /\ [][C22_HitReturnsCached]_vars

\* The active driver caches "api" and "api." as two stores of prefix "api.",
\* and a third call was a hit on "api.".
C22_Witness ==
    /\ DOMAIN stores[2].prefixes = {<<"a","p","i">>, <<"a","p","i",".">>}
    /\ stores[2].prefixes[<<"a","p","i">>] # stores[2].prefixes[<<"a","p","i",".">>]
    /\ stores[stores[2].prefixes[<<"a","p","i">>]].prefix = <<"a","p","i",".">>
    /\ stores[stores[2].prefixes[<<"a","p","i",".">>]].prefix = <<"a","p","i",".">>
    /\ \E d \in done : d.op = "WithPrefix" /\ d.name = <<"a","p","i",".">> /\ d.n = 2

\* stopServer is about to return in goroutine t.
StopServerReturns(t) == sth[t].op = "stop" /\ sth[t].pc = "unlock"

\* When stopServer returns the reference is nil, with or without an error;
\* an error is the timeout of the shutdown of the instance it stopped, whose
\* stop channel and listener are closed all the same; and no instance has
\* its stop channel closed twice.
C23_AbsentAfterStop ==
    /\ \A t \in SrvThreads :
          StopServerReturns(t) =>
              /\ currentServer = 0
              /\ sth[t].err =>
                    /\ sth[t].inst \in 1..Len(servers)
                    /\ servers[sth[t].inst].closes = 1
                    /\ servers[sth[t].inst].inShutdown
                    /\ servers[sth[t].inst].lis = "closed"
    /\ \A i \in 1..Len(servers) : servers[i].closes <= 1

\* With the reference nil, stopServer goes from the lock to its return
\* without an error and without touching any instance, and startServer goes
\* on to a new instance, which leaves the earlier instances as they are.
C23_AfterAbsent ==
    \A t \in SrvThreads :
        /\ (sth[t].pc = "lock" /\ sth'[t].pc # "lock" /\ currentServer = 0) =>
              /\ sth[t].op = "stop" =>
                    (/\ sth'[t].pc = "unlock" /\ ~sth'[t].err
                     /\ servers' = servers /\ currentServer' = 0)
              /\ sth[t].op = "start" => sth'[t].pc = "new"
        /\ (sth[t].pc = "new" /\ sth'[t].pc = "unlock") =>
              /\ Len(servers') = Len(servers) + 1
              /\ currentServer' = Len(servers')
              /\ \A i \in 1..Len(servers) : servers'[i] = servers[i]

\* C23: stopServer always ends with the server absent: the reference is nil
\* when it returns, also when the graceful shutdown timed out; then the
\* shutdown has gone ahead all the same and the error is returned, a
\* following stopServer is a no-op and a following startServer starts a new
\* instance without stopping the old one again.
C23_StopEndsAbsent ==
    []C23_AbsentAfterStop /\ [][C23_AfterAbsent]_vars

\* A stopServer timed out on the first instance and returned its error; a
\* startServer has since started the second instance, the first closed once.
C23_Witness ==
    /\ Len(servers) = 2
    /\ servers[1].closes = 1
    /\ servers[1].stopped
    /\ servers[1].busy
    /\ currentServer = 2
    /\ nstops = 1
    /\ \A t \in SrvThreads : sth[t].pc = "idle"

\* The locks goroutine t holds: the metric locks and the prefix-cache locks.
MetricLocksOf(t) == {s \in StoreIds : mu[s] = t}
CacheLocksOf(t) == {s \in StoreIds : mapLock[s] = t}

\* A goroutine creating a store holds the prefix-cache lock of the parent
\* and nothing else, one in the slow path of getOrCreate holds the metric
\* lock of its store and nothing else, and any other goroutine, one that
\* waits for the write lock included, holds no lock.
C24_OneLockAtATime ==
    \A t \in Threads :
        /\ Cardinality(MetricLocksOf(t)) + Cardinality(CacheLocksOf(t)) <= 1
        /\ th[t].pc = "wp_create" =>
              (CacheLocksOf(t) = {th[t].store} /\ MetricLocksOf(t) = {})
        /\ th[t].pc = "slow" =>
              (MetricLocksOf(t) = {th[t].store} /\ CacheLocksOf(t) = {})
        /\ th[t].pc \notin {"wp_create", "slow"} =>
              (MetricLocksOf(t) = {} /\ CacheLocksOf(t) = {})

\* Every call returns.
C24_EveryCallReturns ==
    \A t \in Threads : (th[t].pc # "idle") ~> (th[t].pc = "idle")

\* C24: WithPrefix and AppendSuffix take only the prefix-cache lock,
\* getOrCreate only the metric lock of its store, the read lock being
\* released before the write lock is asked for, and no goroutine holds two
\* locks at once; so the calls do not deadlock and every call returns.
C24_LockIndependence == []C24_OneLockAtATime /\ C24_EveryCallReturns

\* One goroutine holds the prefix-cache lock of the active driver while the
\* other holds its metric lock.
C24_Witness ==
    /\ th[1].pc = "wp_create" /\ th[1].store = 2 /\ mapLock[2] = 1
    /\ th[2].pc = "slow" /\ th[2].store = 2 /\ mu[2] = 2

\* The entries of the counter, gauge and histogram maps of all stores: the
\* store, the kind of the map, the key and the collector.
MapEntries ==
    UNION {UNION {{[store |-> s, kind |-> k, key |-> n, h |-> MapOf(stores[s], k)[n]] :
                      n \in DOMAIN MapOf(stores[s], k)} : k \in Kinds} : s \in StoreIds}

\* Every map entry holds a registered collector of the map's kind, the only
\* one registered under the name built from the store's prefix and the key.
C25_EntriesAreRegistered ==
    \A e \in MapEntries :
        /\ e.h \in registry
        /\ handles[e.h].kind = e.kind
        /\ handles[e.h].fqName =
              sanitizeName(stores[e.store].prefix) \o sanitizeName(e.key)
        /\ RegisteredAs(handles[e.h].fqName) = {e.h}

\* A map entry stays as it was written.
C25_EntriesStay ==
    \A e \in MapEntries :
        /\ e.key \in DOMAIN MapOf(stores'[e.store], e.kind)
        /\ MapOf(stores'[e.store], e.kind)[e.key] = e.h

\* C25: in every reachable state each collector held in a counter, gauge or
\* histogram map of a store is the collector registered under the name
\* built from the store's prefix and the map key; a fallback collector,
\* which is not registered, is never put in a map; and a map entry, once
\* written, is never replaced or removed.
C25_CacheCoherence ==
    []C25_EntriesAreRegistered /\ [][C25_EntriesStay]_vars

\* Gauge("a.b") registered and cached a_b on the active driver; Time("a_b")
\* then got a fallback histogram, which is in no map, and the entry stayed.
C25_Witness ==
    /\ \E e \in MapEntries :
          /\ e.store = 2 /\ e.kind = "Gauge" /\ e.key = <<"a", ".", "b">>
          /\ handles[e.h].fqName = <<"b","a","s","e","_","a","_","b">>
    /\ \E d \in done :
          /\ d.op = "Time" /\ d.store = 2 /\ d.name = <<"a", "_", "b">>
          /\ d.h \notin registry
          /\ \A e \in MapEntries : e.h # d.h

\* The goroutines that are inside stop() of instance i.
Stopping(i) ==
    {t \in SrvThreads : sth[t].inst = i
                        /\ sth[t].pc \in {"stop_begin", "stop_drain", "stop_wait", "stop_ret"}}

\* The startServer calls that have stopped instance i and are about to put
\* the new instance in its place.
Replacing(i) ==
    {t \in SrvThreads : sth[t].op = "start" /\ sth[t].pc = "new" /\ sth[t].inst = i}

\* The stop channel of every instance has been closed at most once, at most
\* one goroutine is inside stop() of an instance, a goroutine about to close
\* the channel finds it open, and an instance whose stop() has returned is
\* not the current one unless a startServer is still replacing it.
C26_ClosedAtMostOnce ==
    \A i \in 1..Len(servers) :
        /\ servers[i].closes <= 1
        /\ Cardinality(Stopping(i)) <= 1
        /\ \A t \in Stopping(i) : sth[t].pc = "stop_begin" => servers[i].closes = 0
        /\ (servers[i].closes = 1 /\ Stopping(i) = {} /\ Replacing(i) = {})
              => currentServer # i

\* stop() is invoked on the current instance only, by the holder of serverMu.
C26_StopsCurrentOnce ==
    \A t \in SrvThreads :
        (sth[t].pc # "stop_begin" /\ sth'[t].pc = "stop_begin") =>
            /\ sth'[t].inst = currentServer
            /\ serverMu' = t
            /\ servers[currentServer].closes = 0

\* C26: no server instance is stopped twice: in every interleaving of
\* startServer and stopServer calls stop() is invoked at most once on each
\* instance, so its stop channel is closed at most once and the close of a
\* closed channel cannot happen.
C26_NoInstanceStoppedTwice ==
    []C26_ClosedAtMostOnce /\ [][C26_StopsCurrentOnce]_vars

\* Two instances, each stopped once: the first by the startServer that
\* replaced it, the second by a stopServer; a second stopServer found
\* nothing to stop.
C26_Witness ==
    /\ Len(servers) = 2
    /\ servers[1].closes = 1
    /\ servers[2].closes = 1
    /\ currentServer = 0
    /\ nstops = 2
    /\ \A t \in SrvThreads : sth[t].pc = "idle"

\* The stores that some prefix cache holds.
CachedStores ==
    UNION {{stores[p].prefixes[x] : x \in DOMAIN stores[p].prefixes} : p \in StoreIds}

\* C27: every store held in a prefix cache has a non-empty prefix that ends
\* with the separator, and only the root store built by Dial has the empty
\* prefix; WithPrefix(""), which Dial makes when the resolved prefix is
\* empty, gives a store of prefix ".", whose collectors are named "_"
\* followed by the sanitized name.
C27_CachedPrefixEndsWithSeparator ==
    /\ \A s \in CachedStores :
          /\ Len(stores[s].prefix) >= 1
          /\ stores[s].prefix[Len(stores[s].prefix)] = "."
    /\ \A s \in StoreIds : (stores[s].prefix = << >>) <=> (s = 1)
    /\ CachedStores = StoreIds \ {1}
    /\ \A p \in StoreIds :
          << >> \in DOMAIN stores[p].prefixes
              => stores[stores[p].prefixes[<< >>]].prefix = <<".">>
    /\ \A c \in Obtained("Counter") :
          stores[c.store].prefix = <<".">>
              => handles[c.h].fqName = <<"_">> \o sanitizeName(c.name)
    /\ \A d \in done :
          (d.op = "Counter" /\ stores[d.store].prefix = <<".">>)
              => handles[d.h].fqName = <<"_","r","e","q","u","e","s","t","s">>

\* After a Dial with an empty prefix the active driver has the prefix ".",
\* and its Counter("requests") is registered as _requests.
C27_Witness ==
    /\ DOMAIN stores[1].prefixes = {<< >>}
    /\ stores[2].prefix = <<".">>
    /\ \E d \in done :
          /\ d.op = "Counter" /\ d.store = 2
          /\ d.h \in registry
          /\ handles[d.h].fqName = <<"_","r","e","q","u","e","s","t","s">>

====
